---- MODULE Spec2Model ----
(***************************************************************************)
(* Model of the gateway of src/main.rs: the ClientManager pool of shared   *)
(* reqwest clients keyed by proxy, the two per-kind session registries of  *)
(* AppState, get_click_instance / get_slide_instance, and the              *)
(* handle_blocking_call dispatcher of every POST handler.                  *)
(*                                                                         *)
(* An Option<String> is the empty sequence (None) or a one-element         *)
(* sequence (Some(s)).  An Arc<Client> is a record whose (key, n) pair is  *)
(* the identity of the allocation and whose proxy field is the             *)
(* configuration it was built with.  A HashMap is a function whose DOMAIN  *)
(* is the set of keys present.                                             *)
(***************************************************************************)
EXTENDS Naturals, Sequences, FiniteSets, TLC

\* ------------------------------------------------------------ bounds
\* Total number of requests the clients send in one behaviour.
MaxReqs == 2

\* Client connections; each sends one request at a time (sequentially on the
\* connection), the connections run concurrently.
Conns == {"c1", "c2"}

Kinds == {"click", "slide"}
None == <<>>
Some(s) == <<s>>
\* Values of the optional request field session_id.
SessionIds == {None, Some("default"), Some("s1")}
\* Values of the optional request field proxy.
Proxies == {None, Some(""), Some("default"), Some("p1")}

LockNames == {"pool", "click", "slide"}
Free == "free"

VARIABLES
    clients,          \* ClientManager.clients: key -> Arc<Client>
    click_instances,  \* AppState.click_instances: session id -> Click
    slide_instances,  \* AppState.slide_instances: session id -> Slide
    lock,             \* holder of each of the three mutexes, or Free
    poisoned,         \* poison flag of each of the three mutexes
    pc,               \* position of the handler task of each connection
    req,              \* the decoded request being handled on each connection
    proxied_client,   \* local of get_*_instance: Option of a handle
    noproxy_client,   \* local of get_*_instance: Option of a handle
    instance,         \* the request's own copy of the capability instance
    result,           \* what spawn_blocking(..).await returned
    out,              \* the responses written for the current request
    fail,             \* where the current request failed (history)
    returned,         \* handles ClientManager::get returned, per argument (history)
    nbuilt,           \* successful Client constructions per key (history)
    ncreated,         \* instances constructed per (kind, session id) (history)
    resolved,         \* (kind, session id) was resolved successfully (history)
    sent              \* requests received so far

vars == <<clients, click_instances, slide_instances, lock, poisoned, pc, req,
          proxied_client, noproxy_client, instance, result, out, fail,
          returned, nbuilt, ncreated, resolved, sent>>

\* ------------------------------------------------------------ helpers
unwrap_or(opt, dflt) == IF opt = None THEN dflt ELSE opt[1]
is_some(opt) == opt # None

Has(m, k) == k \in DOMAIN m
\* Faulty variant of Insert: the other entries of the map are lost.
InsertEvicting(m, k, v) == [x \in {k} |-> v]
Insert(m, k, v) == [x \in (DOMAIN m) \cup {k} |-> IF x = k THEN v ELSE m[x]]
EmptyMap == [x \in {} |-> None]

PoolKeys == {unwrap_or(p, "default") : p \in Proxies}
SessionKeys == {unwrap_or(s, "default") : s \in SessionIds}

\* StatusCode values used by the dispatcher.
OK == 200
BAD_REQUEST == 400
INTERNAL_SERVER_ERROR == 500

\* impl ApiResponse: data / error are the presence of the Option fields.
ApiResponse_success == [success |-> TRUE, data |-> TRUE, error |-> FALSE]
ApiResponse_error == [success |-> FALSE, data |-> FALSE, error |-> TRUE]
Response(status, body) == [status |-> status, body |-> body]

\* ------------------------------------------------------------ ClientManager
\* let key = proxy.unwrap_or("default").to_string();
PoolKey(proxy) == unwrap_or(proxy, "default")

\* if let Some(client) = clients.get(&key)
Cached(m, key) == Has(m, key)

\* Arc::new(new_client): a fresh allocation built with the proxy given.
NewClient(key, proxy) == [key |-> key, n |-> nbuilt[key] + 1, proxy |-> proxy]

\* reqwest::Proxy::all(proxy_url) accepts the string as a proxy URL (a bare
\* host such as "default" is read as http://default; the empty string is not
\* a URL).
ProxyUrlOk(proxy_url) == proxy_url # ""

\* Outcomes of building the client for a get(proxy) miss: Proxy::all fails on
\* a malformed URL; otherwise build() returns the client, returns an error,
\* or the library call panics.
BuildOutcomes(proxy) ==
    IF is_some(proxy) /\ ~ProxyUrlOk(proxy[1])
    THEN {"err"}
    ELSE {"ok", "err", "panic"}

\* ------------------------------------------------------------ Click / Slide
\* Click::new(client, noproxy_client) / Slide::new(..): a fresh instance.
Instance_new(client, noproxy) == [client |-> client, noproxy_client |-> noproxy, st |-> 0]
\* update_client(new proxied handle): replaces only the active handle.
update_client(inst, client) == [inst EXCEPT !.client = client]
\* An operation of the capability interface run on &mut instance.
RunOperation(inst) == [inst EXCEPT !.st = 1]
NewOutcomes == {"ok", "panic"}
OpOutcomes == {"ok", "err", "panic"}

\* let session_id = session_id.unwrap_or_else(|| "default".to_string());
SessionKey(session_id) == unwrap_or(session_id, "default")

\* The registry a request of the given kind resolves in.
Registry(kind) == IF kind = "click" THEN click_instances ELSE slide_instances

\* Faulty variant of Vacant: the entry is taken for vacant although it is occupied.
VacantAlways(m, session_id) == TRUE

\* instances.entry(session_id) is Entry::Vacant.
Vacant(m, session_id) == ~Has(m, session_id)
\* Faulty variant of or_insert_with: the entry is overwritten by every resolution.
insert_always(m, session_id, fresh) == Insert(m, session_id, fresh)

\* The map after entry(session_id).or_insert_with(|| fresh).
or_insert_with(m, session_id, fresh) ==
    IF Vacant(m, session_id) THEN Insert(m, session_id, fresh) ELSE m

\* ------------------------------------------------------------ Init
Init ==
    /\ clients = EmptyMap
    /\ click_instances = EmptyMap
    /\ slide_instances = EmptyMap
    /\ lock = [l \in LockNames |-> Free]
    /\ poisoned = [l \in LockNames |-> FALSE]
    /\ pc = [c \in Conns |-> "idle"]
    /\ req = [c \in Conns |-> None]
    /\ proxied_client = [c \in Conns |-> None]
    /\ noproxy_client = [c \in Conns |-> None]
    /\ instance = [c \in Conns |-> None]
    /\ result = [c \in Conns |-> "none"]
    /\ out = [c \in Conns |-> <<>>]
    /\ fail = [c \in Conns |-> "none"]
    /\ returned = [p \in Proxies |-> {}]
    /\ nbuilt = [k \in PoolKeys |-> 0]
    /\ ncreated = [k \in Kinds |-> [s \in SessionKeys |-> 0]]
    /\ resolved = [k \in Kinds |-> [s \in SessionKeys |-> FALSE]]
    /\ sent = 0

\* ------------------------------------------------------------ actions
\* A handler task ends: with a response, or by unwinding a panic (the
\* connection is closed without a response).  Its locals are dropped.
Reply(c, response, why) ==
    /\ out' = [out EXCEPT ![c] = Append(@, response)]
    /\ pc' = [pc EXCEPT ![c] = "done"]
    /\ fail' = [fail EXCEPT ![c] = why]
    /\ req' = [req EXCEPT ![c] = None]
    /\ proxied_client' = [proxied_client EXCEPT ![c] = None]
    /\ noproxy_client' = [noproxy_client EXCEPT ![c] = None]
Panic(c, why) ==
    /\ pc' = [pc EXCEPT ![c] = "closed"]
    /\ fail' = [fail EXCEPT ![c] = why]
    /\ req' = [req EXCEPT ![c] = None]
    /\ proxied_client' = [proxied_client EXCEPT ![c] = None]
    /\ noproxy_client' = [noproxy_client EXCEPT ![c] = None]
    /\ UNCHANGED out

\* The response of the map_err closures of get_*_instance and of the
\* poisoned-registry arm.
InternalError == Response(INTERNAL_SERVER_ERROR, ApiResponse_error)

\* A client sends a request on its connection; axum decodes it and starts
\* the handler (any of the click_* / slide_* handlers).
Receive(c) ==
    /\ pc[c] \in {"idle", "done", "closed"}
    /\ sent < MaxReqs
    /\ \E k \in Kinds, s \in SessionIds, p \in Proxies :
          req' = [req EXCEPT ![c] = [kind |-> k, session_id |-> s, proxy |-> p]]
    /\ pc' = [pc EXCEPT ![c] = "get"]
    /\ proxied_client' = [proxied_client EXCEPT ![c] = None]
    /\ noproxy_client' = [noproxy_client EXCEPT ![c] = None]
    /\ instance' = [instance EXCEPT ![c] = None]
    /\ result' = [result EXCEPT ![c] = "none"]
    /\ out' = [out EXCEPT ![c] = <<>>]
    /\ fail' = [fail EXCEPT ![c] = "none"]
    /\ sent' = sent + 1
    /\ UNCHANGED <<clients, click_instances, slide_instances, lock, poisoned,
                   returned, nbuilt, ncreated, resolved>>

\* The argument of the ClientManager::get call the request is in: the first
\* call binds proxied_client, the second one is get(None).
GetArg(c) == IF proxied_client[c] = None THEN req[c].proxy ELSE None

\* Faulty variant of PoolLockFree: the pool mutex does not exclude a second holder.
PoolLockNotExclusive == TRUE

\* Whether the pool mutex can be taken by a get call.
PoolLockFree == lock["pool"] = Free

\* self.clients.lock().expect("ClientManager mutex poisoned")
GetLock(c) ==
    /\ pc[c] = "get"
    /\ PoolLockFree
    /\ IF poisoned["pool"]
       THEN /\ Panic(c, "pool_poisoned")
            /\ UNCHANGED lock
       ELSE /\ lock' = [lock EXCEPT !["pool"] = c]
            /\ pc' = [pc EXCEPT ![c] = "get_lookup"]
            /\ UNCHANGED <<out, fail, req, proxied_client, noproxy_client>>
    /\ UNCHANGED <<clients, click_instances, slide_instances, poisoned,
                   instance, result, returned, nbuilt, ncreated, resolved, sent>>

\* Faulty variant of DropPoolGuard: the guard outlives the get call.
KeepPoolGuard(c) == lock

\* The locks after the MutexGuard `clients` is dropped at the return of get.
DropPoolGuard(c) == [lock EXCEPT !["pool"] = IF @ = c THEN Free ELSE @]

\* Faulty variant of DropRegistryGuard: the guard outlives get_*_instance.
KeepRegistryGuard(kind, c) == lock

\* The locks after the MutexGuard `instances` is dropped at the return of
\* get_click_instance / get_slide_instance.
DropRegistryGuard(kind, c) == [lock EXCEPT ![kind] = IF @ = c THEN Free ELSE @]

\* get returned Ok(handle) to get_*_instance; the guard is dropped.
GetReturn(c, h) ==
    /\ returned' = [returned EXCEPT ![GetArg(c)] = @ \cup {h}]
    /\ lock' = DropPoolGuard(c)
    /\ IF proxied_client[c] = None
       THEN /\ proxied_client' = [proxied_client EXCEPT ![c] = Some(h)]
            /\ pc' = [pc EXCEPT ![c] = "get"]
            /\ UNCHANGED noproxy_client
       ELSE /\ noproxy_client' = [noproxy_client EXCEPT ![c] = Some(h)]
            /\ pc' = [pc EXCEPT ![c] = "resolve"]
            /\ UNCHANGED proxied_client

\* if let Some(client) = clients.get(&key) { return Ok(Arc::clone(client)); }
GetLookup(c) ==
    /\ pc[c] = "get_lookup"
    /\ LET key == PoolKey(GetArg(c))
       IN IF Cached(clients, key)
          THEN GetReturn(c, clients[key])
          ELSE /\ pc' = [pc EXCEPT ![c] = "get_build"]
               /\ UNCHANGED <<lock, returned, proxied_client, noproxy_client>>
    /\ UNCHANGED <<clients, click_instances, slide_instances, poisoned, req,
                   instance, result, out, fail, nbuilt, ncreated, resolved, sent>>

\* Faulty variant of ClientsAfterBuild: a failed build stores a client
\* without proxy under the key.
ClientsAfterBuildFallback(m, key, proxy, o) ==
    IF o = "ok"
    THEN Insert(m, key, NewClient(key, proxy))
    ELSE Insert(m, key, NewClient(key, None))

\* Faulty variant of ClientsAfterBuild: the built client is returned but
\* not stored.
ClientsAfterBuildNotStored(m, key, proxy, o) == m

\* The pool map after the miss path of get ended with outcome o: only a
\* built client reaches clients.insert(key, ..).
ClientsAfterBuild(m, key, proxy, o) ==
    IF o = "ok" THEN Insert(m, key, NewClient(key, proxy)) ELSE m

\* The miss path of get: build the client, insert it, return it.
GetBuild(c) ==
    /\ pc[c] = "get_build"
    /\ LET proxy == GetArg(c)
           key == PoolKey(proxy)
       IN \E o \in BuildOutcomes(proxy) :
            /\ clients' = ClientsAfterBuild(clients, key, proxy, o)
            /\ CASE o = "ok" ->
                      /\ nbuilt' = [nbuilt EXCEPT ![key] = @ + 1]
                      /\ GetReturn(c, NewClient(key, proxy))
                      /\ UNCHANGED <<poisoned, out, fail, req>>
                 [] o = "err" ->
                      /\ Reply(c, InternalError, "pool_err")
                      /\ lock' = DropPoolGuard(c)
                      /\ UNCHANGED <<nbuilt, poisoned, returned>>
                 [] o = "panic" ->
                      /\ Panic(c, "build_panic")
                      /\ poisoned' = [poisoned EXCEPT !["pool"] = TRUE]
                      /\ lock' = DropPoolGuard(c)
                      /\ UNCHANGED <<nbuilt, returned>>
    /\ UNCHANGED <<click_instances, slide_instances, instance, result,
                   ncreated, resolved, sent>>

\* Faulty variant of RegistryLockFree: the registry is also kept from a
\* request while another request of its kind runs its operation.
RegistryLockFreeAndIdle(c) ==
    /\ lock[req[c].kind] = Free
    /\ \A d \in Conns \ {c} :
          ~(pc[d] = "spawned" /\ req[d].kind = req[c].kind)

\* Whether the registry mutex of the request's kind can be taken.
RegistryLockFree(c) == lock[req[c].kind] = Free

\* match state.click_instances.lock() / state.slide_instances.lock()
RegistryLock(c) ==
    /\ pc[c] = "resolve"
    /\ RegistryLockFree(c)
    /\ IF poisoned[req[c].kind]
       THEN /\ Reply(c, InternalError, "registry_poisoned")
            /\ UNCHANGED lock
       ELSE /\ lock' = [lock EXCEPT ![req[c].kind] = c]
            /\ pc' = [pc EXCEPT ![c] = "resolve_locked"]
            /\ UNCHANGED <<out, fail, req, proxied_client, noproxy_client>>
    /\ UNCHANGED <<clients, click_instances, slide_instances, poisoned,
                   instance, result, returned, nbuilt, ncreated, resolved, sent>>

\* Faulty variant of SetRegistry: both kinds write the click registry.
SetRegistryClickOnly(kind, m) ==
    click_instances' = m /\ UNCHANGED slide_instances

\* The registry written by a resolution of the given kind.
SetRegistry(kind, m) ==
    IF kind = "click"
    THEN click_instances' = m /\ UNCHANGED slide_instances
    ELSE slide_instances' = m /\ UNCHANGED click_instances

\* Faulty variant of Resolved: the clone is returned without the rebind.
ResolvedWithoutRebind(stored, proxy, client) == stored

\* The instance get_*_instance returns: the clone of the stored entry,
\* rebound when the request names a proxy.
Resolved(stored, proxy, client) ==
    IF is_some(proxy) THEN update_client(stored, client) ELSE stored

\* instances.entry(session_id).or_insert_with(..).clone(), the rebind, and
\* the return of get_*_instance (which drops the guard and the handles).
RegistryBody(c) ==
    /\ pc[c] = "resolve_locked"
    /\ lock[req[c].kind] = c
    /\ LET kind == req[c].kind
           session_id == SessionKey(req[c].session_id)
           m == Registry(kind)
           fresh == Instance_new(proxied_client[c][1], noproxy_client[c][1])
           after == or_insert_with(m, session_id, fresh)
       IN \E o \in NewOutcomes :
            CASE o = "ok" ->
                   /\ SetRegistry(kind, after)
                   /\ ncreated' = [ncreated EXCEPT ![kind][session_id] =
                                     IF Vacant(m, session_id) THEN @ + 1 ELSE @]
                   /\ resolved' = [resolved EXCEPT ![kind][session_id] = TRUE]
                   /\ instance' = [instance EXCEPT ![c] =
                         Some(Resolved(after[session_id], req[c].proxy,
                                       proxied_client[c][1]))]
                   /\ pc' = [pc EXCEPT ![c] = "spawned"]
                   /\ proxied_client' = [proxied_client EXCEPT ![c] = None]
                   /\ noproxy_client' = [noproxy_client EXCEPT ![c] = None]
                   /\ UNCHANGED <<poisoned, out, fail, req>>
              [] o = "panic" ->
                   \* Click::new / Slide::new panics inside or_insert_with
                   /\ Vacant(m, session_id)
                   /\ Panic(c, "new_panic")
                   /\ poisoned' = [poisoned EXCEPT ![kind] = TRUE]
                   /\ UNCHANGED <<click_instances, slide_instances,
                                  ncreated, resolved, instance>>
    /\ lock' = DropRegistryGuard(req[c].kind, c)
    /\ UNCHANGED <<clients, result, returned, nbuilt, sent>>

\* The closure of task::spawn_blocking runs the operation on the request's
\* instance on a blocking worker.
RunBlocking(c) ==
    /\ pc[c] = "spawned"
    /\ \E o \in OpOutcomes : result' = [result EXCEPT ![c] = o]
    /\ instance' = [instance EXCEPT ![c] = Some(RunOperation(@[1]))]
    /\ pc' = [pc EXCEPT ![c] = "joined"]
    /\ UNCHANGED <<clients, click_instances, slide_instances, lock, poisoned,
                   req, proxied_client, noproxy_client, out, fail,
                   returned, nbuilt, ncreated, resolved, sent>>

\* Faulty variant of JoinResponse: an operation error is answered as an internal one.
JoinResponseAllInternal(r) ==
    IF r = "ok"
    THEN Response(OK, ApiResponse_success)
    ELSE Response(INTERNAL_SERVER_ERROR, ApiResponse_error)

\* The arms of the match on task::spawn_blocking(..).await.
JoinResponse(r) ==
    CASE r = "ok" -> Response(OK, ApiResponse_success)
      [] r = "err" -> Response(BAD_REQUEST, ApiResponse_error)
      [] OTHER -> Response(INTERNAL_SERVER_ERROR, ApiResponse_error)

\* The place of the failure a joined result stands for.
JoinFailure(r) ==
    CASE r = "ok" -> "none"
      [] r = "err" -> "operation"
      [] OTHER -> "join"

\* handle_blocking_call: the awaited result becomes the response.
Respond(c) ==
    /\ pc[c] = "joined"
    /\ Reply(c, JoinResponse(result[c]), JoinFailure(result[c]))
    /\ instance' = [instance EXCEPT ![c] = None]
    /\ result' = [result EXCEPT ![c] = "none"]
    /\ UNCHANGED <<clients, click_instances, slide_instances, lock, poisoned,
                   returned, nbuilt, ncreated, resolved, sent>>

Next ==
    \E c \in Conns :
        \/ Receive(c)
        \/ GetLock(c)
        \/ GetLookup(c)
        \/ GetBuild(c)
        \/ RegistryLock(c)
        \/ RegistryBody(c)
        \/ RunBlocking(c)
        \/ Respond(c)

Spec == Init /\ [][Next]_vars

\* The runtime keeps polling every handler task and the blocking pool keeps
\* running every spawned closure: a request whose next step stays possible
\* takes it.
FairSpec == Spec /\ \A c \in Conns : WF_vars(GetLock(c) \/ GetLookup(c)
                 \/ GetBuild(c) \/ RegistryLock(c) \/ RegistryBody(c)
                 \/ RunBlocking(c) \/ Respond(c))

\* ============================================================ claims

\* The requests that have resolved their instance and not yet responded.
HasInstance(c) == pc[c] \in {"spawned", "joined"}

\* ------------------------------------------------------------ C1
\* C1 (as claimed): whatever proxied resolutions of a session came before,
\* a resolution with no proxy returns an instance whose active proxied handle
\* is the pool's handle under the key "default".
C1_NoProxyResolvesDefaultHandle ==
    \A c \in Conns :
        (pc[c] = "spawned" /\ req[c].proxy = None)
            => instance[c][1].client = clients["default"]

\* ------------------------------------------------------------ C2
\* The proxy values C2 speaks of: absent, or a non-empty string.
ClaimProxies == {p \in Proxies : p = None \/ p[1] # ""}

\* C2 (as claimed): all successful get(P) return one and the same handle, and
\* successful gets for two different proxy values return distinct handles.
C2_SameProxySameHandleElseDistinct ==
    /\ \A p \in ClaimProxies : Cardinality(returned[p]) <= 1
    /\ \A p, q \in ClaimProxies :
          p # q => returned[p] \cap returned[q] = {}

\* ------------------------------------------------------------ C3
\* The handle a get for argument p must have returned: the one in the map.
Canonical(p) ==
    IF Has(clients, PoolKey(p)) THEN {clients[PoolKey(p)]} ELSE {}

C3_PoolState ==
    /\ \A k \in PoolKeys :
          /\ nbuilt[k] <= 1
          /\ Has(clients, k) <=> nbuilt[k] = 1
    /\ \A p \in Proxies : returned[p] \subseteq Canonical(p)
    /\ \A c \in Conns :
          /\ proxied_client[c] # None
                => proxied_client[c][1] \in Canonical(req[c].proxy)
          /\ noproxy_client[c] # None
                => noproxy_client[c][1] \in Canonical(None)

C3_PoolStep ==
    \A k \in DOMAIN clients :
        /\ Has(clients', k)
        /\ clients'[k] = clients[k]
        /\ nbuilt'[k] = nbuilt[k]

\* C3: under any interleaving of get calls at most one handle is built per
\* key, every caller holds the handle the map holds for its key, a binding
\* once made never changes, and a get that finds its key builds nothing.
C3_OneCanonicalHandlePerKey == [](C3_PoolState) /\ [][C3_PoolStep]_vars

\* Two requests on different connections hold the same handle for the same
\* proxy at the same time, built once.
C3_Witness ==
    \E c, d \in Conns :
        /\ c # d
        /\ proxied_client[c] # None /\ proxied_client[d] # None
        /\ req[c].proxy = Some("p1") /\ req[d].proxy = Some("p1")
        /\ proxied_client[c] = proxied_client[d]
        /\ nbuilt["p1"] = 1

\* ------------------------------------------------------------ C4
\* The kind and the session key of the request on connection c.
KindOf(c) == req[c].kind
KeyOf(c) == SessionKey(req[c].session_id)

C4_RegistryState ==
    \A k \in Kinds, s \in SessionKeys :
        /\ resolved[k][s] => ncreated[k][s] = 1
        /\ resolved[k][s] <=> Has(Registry(k), s)
        /\ \A c \in Conns :
              (HasInstance(c) /\ KindOf(c) = k /\ KeyOf(c) = s)
                  => ncreated[k][s] = 1

C4_RegistryStep ==
    \A k \in Kinds, s \in SessionKeys :
        Has(Registry(k), s) => ncreated'[k][s] = ncreated[k][s]

\* C4: any number N >= 1 of successful resolutions of (kind, S), one after
\* the other or at the same time, construct and insert the stored instance
\* exactly once: the first constructs, every later one finds it present.
C4_OneConstructionPerSession ==
    [](C4_RegistryState) /\ [][C4_RegistryStep]_vars

\* Two requests hold resolved instances of the same (kind, session) at the
\* same time, and the instance was constructed once.
C4_Witness ==
    \E c, d \in Conns :
        /\ c # d
        /\ HasInstance(c) /\ HasInstance(d)
        /\ KindOf(c) = KindOf(d) /\ KeyOf(c) = KeyOf(d)
        /\ ncreated[KindOf(c)][KeyOf(c)] = 1

\* ------------------------------------------------------------ C5
\* success=true goes with data and no error, success=false with the reverse.
WellFormed(body) ==
    /\ body.success => (body.data /\ ~body.error)
    /\ ~body.success => (~body.data /\ body.error)

\* C5: the status of a response is decided by where the request failed: a
\* pool get error or a poisoned registry lock gives 500, an operation error
\* 400, a join error 500, and only resolution and operation both succeeding
\* gives the success envelope; every envelope is well formed.
C5_StatusByFailurePlace ==
    \A c \in Conns :
        pc[c] = "done" =>
            /\ Len(out[c]) = 1
            /\ WellFormed(out[c][1].body)
            /\ fail[c] \in {"none", "pool_err", "registry_poisoned",
                            "operation", "join"}
            /\ fail[c] \in {"pool_err", "registry_poisoned", "join"}
                  => out[c][1] = Response(INTERNAL_SERVER_ERROR, ApiResponse_error)
            /\ fail[c] = "operation"
                  => out[c][1] = Response(BAD_REQUEST, ApiResponse_error)
            /\ fail[c] = "none"
                  => out[c][1] = Response(OK, ApiResponse_success)

\* One request answered 400 for an operation error while another was
\* answered 500 for a pool get error.
C5_Witness ==
    \E c, d \in Conns :
        /\ pc[c] = "done" /\ fail[c] = "operation"
        /\ out[c][1].status = BAD_REQUEST
        /\ pc[d] = "done" /\ fail[d] = "pool_err"
        /\ out[d][1].status = INTERNAL_SERVER_ERROR

\* ------------------------------------------------------------ C6
\* C6 (as claimed): a request that finds the pool lock or a registry lock
\* poisoned ends with the internal-error envelope, status 500.
C6_PoisonedLockAnswered500 ==
    \A c \in Conns :
        fail[c] \in {"pool_poisoned", "registry_poisoned"}
            => (pc[c] = "done" /\ out[c] = <<InternalError>>)

\* ------------------------------------------------------------ C7
\* C7 (as claimed, on the paths it lists): a request whose handler has ended
\* after a resolution failure, an operation result or panic, or a poisoned
\* lock has received exactly one envelope.
C7_EndedWithOneEnvelope ==
    \A c \in Conns :
        (pc[c] \in {"done", "closed"}
            /\ fail[c] \in {"none", "pool_err", "operation", "join",
                            "pool_poisoned", "registry_poisoned"})
            => Len(out[c]) = 1

\* ------------------------------------------------------------ C8
\* C8 (as claimed): get(Some("")) works on the key "default": it builds
\* nothing when the no-proxy handle is cached.
C8_EmptyProxyIsDefaultKey ==
    \A c \in Conns :
        (pc[c] \in {"get_lookup", "get_build"} /\ GetArg(c) = Some(""))
            => /\ PoolKey(GetArg(c)) = "default"
               /\ pc[c] = "get_build" => ~Has(clients, "default")

\* ------------------------------------------------------------ C9
\* The registry of a kind, read from the state.
Stored(k) == IF k = "click" THEN click_instances ELSE slide_instances

\* The session id a request names, with an omitted one read as "default".
NamedSession(c) ==
    IF req[c].session_id = None THEN "default" ELSE req[c].session_id[1]

C9_ResolvedEntry ==
    \A c \in Conns :
        HasInstance(c) =>
            /\ Has(Stored(KindOf(c)), NamedSession(c))
            /\ resolved[KindOf(c)][NamedSession(c)]
            /\ instance[c][1].noproxy_client
                  = Stored(KindOf(c))[NamedSession(c)].noproxy_client

\* A registry changes only by the resolution of a request of its own kind,
\* and only at the session that request names.
C9_KindStep ==
    \A k \in Kinds :
        Stored(k)' # Stored(k) =>
            \E c \in Conns :
                /\ pc[c] = "resolve_locked" /\ pc'[c] = "spawned"
                /\ KindOf(c) = k
                /\ DOMAIN Stored(k)' = DOMAIN Stored(k) \cup {NamedSession(c)}
                /\ \A j \in Kinds \ {k} : Stored(j)' = Stored(j)

\* C9: a request without session_id resolves the entry "default" of its
\* kind, the same one session_id "default" resolves; entries are keyed by
\* (kind, session id), and a resolution of one kind never creates or changes
\* an entry of the other kind.
C9_KeyedByKindAndSession == [](C9_ResolvedEntry) /\ [][C9_KindStep]_vars

\* A request without session_id and one with session_id "default" hold
\* instances of the one entry of their kind, while the other kind's registry
\* has no entry.
C9_Witness ==
    \E c, d \in Conns :
        /\ HasInstance(c) /\ HasInstance(d)
        /\ req[c].session_id = None /\ req[d].session_id = Some("default")
        /\ KindOf(c) = KindOf(d)
        /\ ncreated[KindOf(c)]["default"] = 1
        /\ \A j \in Kinds \ {KindOf(c)} : DOMAIN Stored(j) = {}

\* ------------------------------------------------------------ C10
\* The copy a request resolved, against the stored entry it was taken from.
CopyOf(c) == instance[c][1]
EntryOf(c) == Stored(KindOf(c))[NamedSession(c)]

C10_Copies ==
    /\ \A k \in Kinds : \A s \in DOMAIN Stored(k) : Stored(k)[s].st = 0
    /\ \A c \in Conns :
          HasInstance(c) =>
              /\ CopyOf(c).noproxy_client = EntryOf(c).noproxy_client
              /\ CopyOf(c).st = (IF pc[c] = "joined" THEN 1 ELSE 0)
              /\ req[c].proxy = None => CopyOf(c).client = EntryOf(c).client
              /\ req[c].proxy # None
                    => CopyOf(c).client = clients[PoolKey(req[c].proxy)]

C10_Frame ==
    /\ \A k \in Kinds : \A s \in DOMAIN Stored(k) :
          Has(Stored(k)', s) /\ Stored(k)'[s] = Stored(k)[s]
    /\ \A c \in Conns : instance'[c] # instance[c] => pc'[c] # pc[c]

\* C10: a stored entry never changes once it exists, neither by a resolution
\* with a proxy nor by an operation; a request's copy is changed only by that
\* request's own steps, and it equals the stored entry as created except for
\* the request's proxy rebind and its own operation's mutation.
C10_StoredEntryNeverChanges == [](C10_Copies) /\ [][C10_Frame]_vars

\* Two requests of one session in flight with different proxies: one has run
\* its operation on its copy, the other holds an unmodified copy.
C10_Witness ==
    \E c, d \in Conns :
        /\ pc[c] = "joined" /\ pc[d] = "spawned"
        /\ KindOf(c) = KindOf(d) /\ NamedSession(c) = NamedSession(d)
        /\ req[c].proxy = Some("p1") /\ req[d].proxy = None
        /\ CopyOf(c).st = 1 /\ CopyOf(d).st = 0
        /\ EntryOf(c).st = 0

\* ------------------------------------------------------------ C11
\* The locks a request holds.
Held(c) == {l \in LockNames : lock[l] = c}

\* C11: a request whose operation is running on the blocking worker (or has
\* run) holds neither the pool lock nor a registry lock; the pool lock is
\* held only inside a get call and a registry lock only inside the
\* lookup/insert of get_*_instance.
C11_NoLockWhileOperationRuns ==
    \A c \in Conns :
        /\ HasInstance(c) => Held(c) = {}
        /\ lock["pool"] = c <=> pc[c] \in {"get_lookup", "get_build"}
        /\ \A k \in Kinds :
              lock[k] = c <=> (pc[c] = "resolve_locked" /\ req[c].kind = k)

\* An operation is running while the other request holds the registry lock
\* of the same kind.
C11_Witness ==
    \E c, d \in Conns :
        /\ pc[c] = "spawned" /\ Held(c) = {}
        /\ pc[d] = "resolve_locked"
        /\ req[d].kind = req[c].kind
        /\ lock[req[c].kind] = d

\* ------------------------------------------------------------ C12
\* Any step of the handler of the request on connection c.
HandlerStep(c) ==
    \/ GetLock(c)
    \/ GetLookup(c)
    \/ GetBuild(c)
    \/ RegistryLock(c)
    \/ RegistryBody(c)
    \/ RunBlocking(c)
    \/ Respond(c)

InFlight(c) == pc[c] \notin {"idle", "done", "closed"}

\* C12: while request a is executing its operation, however long, any other
\* request b in flight, whatever its kind and session, can take its next
\* step, at every point up to its response: b never waits for a.
C12_NotBlockedByRunningOperation ==
    \A a, b \in Conns :
        (a # b /\ pc[a] = "spawned" /\ InFlight(b)) => ENABLED HandlerStep(b)

\* Request b of the same kind and session has run its operation to the end
\* while the operation of a is still executing.
C12_Witness ==
    \E a, b \in Conns :
        /\ a # b
        /\ pc[a] = "spawned" /\ pc[b] = "joined"
        /\ req[a].kind = req[b].kind
        /\ SessionKey(req[a].session_id) = SessionKey(req[b].session_id)

\* ------------------------------------------------------------ C13
\* A request still inside its two get calls has no instance and no registry
\* lock; one that failed in get has ended with the internal-error envelope.
C13_BeforeRegistry ==
    \A c \in Conns :
        /\ pc[c] \in {"get", "get_lookup", "get_build"}
              => (instance[c] = None /\ \A k \in Kinds : lock[k] # c)
        /\ fail[c] = "pool_err"
              => (pc[c] = "done" /\ instance[c] = None
                    /\ out[c] = <<Response(INTERNAL_SERVER_ERROR, ApiResponse_error)>>)

\* The step in which a get call fails, and the steps after it.
C13_FailingGet ==
    \A c \in Conns :
        /\ (fail'[c] = "pool_err" /\ fail[c] # "pool_err")
              => /\ pc[c] = "get_build" /\ pc'[c] = "done"
                 /\ clients' = clients
                 /\ click_instances' = click_instances
                 /\ slide_instances' = slide_instances
                 /\ resolved' = resolved
                 /\ \A k \in Kinds : lock'[k] = lock[k]
        /\ fail[c] = "pool_err" => pc'[c] \in {"done", "get"}

\* C13: a failing get leaves the pool map as it was (nothing is stored for
\* the failing key), and the request aborts there: it takes no registry
\* lock, creates no session entry and submits no operation.
C13_FailedGetAbortsBeforeRegistry ==
    [](C13_BeforeRegistry) /\ [][C13_FailingGet]_vars

\* A request with proxy p1 got its proxied handle and then failed in
\* get(None): the pool holds p1 only and both registries are empty.
C13_Witness ==
    \E c \in Conns :
        /\ pc[c] = "done" /\ fail[c] = "pool_err"
        /\ DOMAIN clients = {"p1"}
        /\ DOMAIN click_instances = {} /\ DOMAIN slide_instances = {}

\* ------------------------------------------------------------ C14
\* C14 (as claimed): the handle under "default" was built without a proxy
\* and the handle under any other key K with the proxy K, so get(absent)
\* never returns a proxied handle and get(P) never a no-proxy handle.
C14_KeyTellsConfiguration ==
    /\ \A k \in DOMAIN clients :
          clients[k].proxy = (IF k = "default" THEN None ELSE Some(k))
    /\ \A h \in returned[None] : h.proxy = None
    /\ \A p \in Proxies \ {None} : \A h \in returned[p] : h.proxy = p

\* ------------------------------------------------------------ C15
\* C15: the instance a resolution with an explicit proxy P returns has the
\* pool's handle for P as its active handle, whatever the stored entry
\* holds, and the direct handle of the stored entry.
C15_ExplicitProxyRebindsCopy ==
    \A c \in Conns :
        (HasInstance(c) /\ req[c].proxy # None) =>
            /\ Has(clients, req[c].proxy[1])
            /\ CopyOf(c).client = clients[req[c].proxy[1]]
            /\ CopyOf(c).noproxy_client = EntryOf(c).noproxy_client

\* A resolution with proxy p1 of a session whose stored entry holds another
\* active handle.
C15_Witness ==
    \E c \in Conns :
        /\ pc[c] = "spawned" /\ req[c].proxy = Some("p1")
        /\ EntryOf(c).client # clients["p1"]
        /\ CopyOf(c).client = clients["p1"]

\* ------------------------------------------------------------ C16
C16_Monotone ==
    /\ DOMAIN clients \subseteq DOMAIN clients'
    /\ DOMAIN clients' # DOMAIN clients =>
          \E c \in Conns :
              /\ pc[c] = "get_build" /\ pc'[c] \in {"get", "resolve"}
              /\ unwrap_or(GetArg(c), "default") \notin DOMAIN clients
              /\ DOMAIN clients'
                    = DOMAIN clients \cup {unwrap_or(GetArg(c), "default")}
    /\ \A k \in Kinds :
          /\ DOMAIN Stored(k) \subseteq DOMAIN Stored(k)'
          /\ DOMAIN Stored(k)' # DOMAIN Stored(k) =>
                \E c \in Conns :
                    /\ pc[c] = "resolve_locked" /\ pc'[c] = "spawned"
                    /\ KindOf(c) = k
                    /\ NamedSession(c) \notin DOMAIN Stored(k)
                    /\ DOMAIN Stored(k)'
                          = DOMAIN Stored(k) \cup {NamedSession(c)}

\* C16: no step removes a key of the pool or an entry of a registry, on any
\* path; a cache grows only by the one key of a get that built its client,
\* or by the one session of a resolution that succeeded, when that key was
\* not there before.
C16_CachesOnlyGrow == [][C16_Monotone]_vars

\* The pool and the click registry have grown to two keys each, and a
\* request has since ended with an operation error.
C16_Witness ==
    /\ Cardinality(DOMAIN clients) = 2
    /\ Cardinality(DOMAIN click_instances) = 2
    /\ \E c \in Conns : pc[c] = "done" /\ fail[c] = "operation"

\* ------------------------------------------------------------ C17
\* A request is at a lock() call on the pool / on its registry.
AtPoolLock(c) == pc[c] = "get"
AtRegistryLock(c) == pc[c] = "resolve"

C17_OneLockAtATime ==
    \A c \in Conns :
        /\ Cardinality(Held(c)) <= 1
        /\ (AtPoolLock(c) \/ AtRegistryLock(c)) => Held(c) = {}
        /\ ~InFlight(c) => Held(c) = {}

C17_NoDeadlock ==
    \A c \in Conns :
        InFlight(c) =>
            \/ ENABLED HandlerStep(c)
            \/ /\ Held(c) = {}
               /\ \E d \in Conns \ {c} :
                     Held(d) # {} /\ ENABLED HandlerStep(d)

C17_LockCallReturns ==
    \A c \in Conns :
        /\ AtPoolLock(c) ~> (lock["pool"] = c \/ poisoned["pool"])
        /\ \A k \in Kinds :
              (AtRegistryLock(c) /\ req[c].kind = k)
                  ~> (lock[k] = c \/ poisoned[k])

Pooled == {clients[k] : k \in DOMAIN clients}

\* Both handles of an instance come from the pool map.
FromPool(i) == i.client \in Pooled /\ i.noproxy_client \in Pooled

\* C18: both handles (active proxied and direct) of every stored registry
\* entry and of every resolved per-request copy are handles the pool map
\* holds under some key; a registry with an entry implies the pool has the
\* key "default"; the handles a request got from get are pooled too.
C18_InstanceHandlesArePooled ==
    /\ \A k \in Kinds : \A s \in DOMAIN Stored(k) : FromPool(Stored(k)[s])
    /\ \A c \in Conns :
          /\ HasInstance(c) => FromPool(CopyOf(c))
          /\ proxied_client[c] # None => proxied_client[c][1] \in Pooled
          /\ noproxy_client[c] # None => noproxy_client[c][1] \in Pooled
    /\ (\E k \in Kinds : DOMAIN Stored(k) # {}) => Has(clients, "default")

\* A stored entry created through a proxy serves a request that names
\* another proxy: the copy is rebound to a different pooled handle.
C18_Witness ==
    \E c \in Conns :
        /\ HasInstance(c) /\ req[c].proxy # None
        /\ EntryOf(c).client # EntryOf(c).noproxy_client
        /\ CopyOf(c).client # EntryOf(c).client
        /\ Cardinality(DOMAIN clients) = 2

====
